---- MODULE Spec2Model ----
(***************************************************************************)
(* A model of PyLMI-SDP (lmi_sdp/lm.py, lmi_sdp/sdp.py): the diagonal      *)
(* block splitter, the extraction of linear coefficients, and the          *)
(* preparation of LMIs and objectives for an SDP solver.                   *)
(*                                                                         *)
(* Three specifications share the variables: Spec runs the splitter one    *)
(* iteration of its while loop at a time, SpecLin applies lin_expr_coeffs  *)
(* and prepare_objective_for_sdp, SpecLmi applies prepare_lmi_for_sdp and  *)
(* to_cvxopt.  The inputs of a call are drawn in the initial state; call   *)
(* names the function the caller invokes.                                  *)
(***************************************************************************)
EXTENDS Integers, Sequences, FiniteSets, TLC

VARIABLES
    pc,        \* "start", "while" (in get_diag_block_idxs), "done", "raised"
    call,      \* the function the caller invokes
    matrix,    \* split_by_diag_blocks: the argument
    c,         \* get_diag_block_idxs: the cursor
    b,         \* get_diag_block_idxs: the boundaries found so far
    iters,     \* iterations of the while loop taken so far
    idxs,      \* split_by_diag_blocks: what get_diag_block_idxs returned
    blocks,    \* split_by_diag_blocks: the returned list of blocks
    linear_expr,     \* the expression (objective_func, for an objective)
    variables,       \* the list of variables
    objective_type,  \* the direction of the objective
    meaning,         \* the polynomial the expression was written down from
    lmi,                      \* prepare_lmi_for_sdp: the LMIs given
    optimize_by_diag_blocks,  \* prepare_lmi_for_sdp: the flag
    cvxopt,          \* whether the import of cvxopt succeeded
    ret              \* what the call returned, or the error it raised

vars == <<pc, call, matrix, c, b, iters, idxs, blocks, linear_expr, variables,
          objective_type, meaning, lmi, optimize_by_diag_blocks, cvxopt, ret>>

splitVars == <<matrix, c, b, iters, idxs, blocks>>
inputVars == <<call, linear_expr, variables, objective_type, meaning, lmi,
               optimize_by_diag_blocks, cvxopt>>

\* Largest dimension of the matrices the splitter is run on.
MaxN == 4

\* Largest magnitude of a coefficient of the affine part of an expression.
MaxCoef == 1

\* Largest number of LMIs in a list.
MaxLmis == 2

Idx(n) == 0 .. (n - 1)

Range(s) == { s[k] : k \in DOMAIN s }

RECURSIVE Concat(_)
Concat(ss) == IF ss = <<>> THEN <<>> ELSE Head(ss) \o Concat(Tail(ss))

\* f[s[1]] + ... + f[s[n]]
RECURSIVE SumTo(_, _, _)
SumTo(f, s, n) == IF n = 0 THEN 0 ELSE f[s[n]] + SumTo(f, s, n - 1)

Returned(v) == [status |-> "ok", value |-> v]
Raised(e) == [status |-> e, value |-> <<>>]

\* ------------------------------------------------------------------------
\* Symbolic expressions.  An expression is the sum it is stored as: a
\* coefficient for each key, a key being the part of a term that is left
\* once its numeric factor is taken off (what as_coefficients_dict returns,
\* a missing key reading 0).  A key is 1, a symbol, a product of two symbols,
\* or a product that is not multiplied out.

Syms == {"x", "y", "z"}

\* The fresh symbol Dummy() makes: no expression given by a caller holds it.
Dummy == "_dummy"

Atoms == {"1"} \cup Syms \cup {Dummy}

\* The factor k + cx*x + cy*y + cz*z.
Lin(k, cx, cy, cz) ==
    [a \in Atoms |-> CASE a = "1" -> k [] a = "x" -> cx [] a = "y" -> cy
                       [] a = "z" -> cz [] OTHER -> 0]

Unit == Lin(1, 0, 0, 0)

Sym(v) == [a \in Atoms |-> IF a = v THEN 1 ELSE 0]

\* The products of two symbols, with the two symbols of each.
Mono2Atoms ==
    ("x**2" :> <<"x", "x">>) @@ ("x*y" :> <<"x", "y">>) @@
    ("x*z" :> <<"x", "z">>) @@ ("y**2" :> <<"y", "y">>) @@
    ("y*z" :> <<"y", "z">>) @@ ("z**2" :> <<"z", "z">>)

\* The products that are not multiplied out, with the two factors of each
\* (x + 1 is the factor of an unevaluated 2*(x + 1)).
ProductFactors ==
    ("x*(y + 1)" :> <<Sym("x"), Lin(1, 0, 1, 0)>>) @@
    ("(x + 1)**2" :> <<Lin(1, 1, 0, 0), Lin(1, 1, 0, 0)>>) @@
    ("x + 1" :> <<Lin(1, 1, 0, 0), Unit>>)

MonoNames == {"1"} \cup Syms \cup {Dummy} \cup DOMAIN Mono2Atoms

KeyNames == MonoNames \cup DOMAIN ProductFactors

\* The two atoms whose product a monomial is.
AtomsOf(m) ==
    IF m = "1" THEN <<"1", "1">>
    ELSE IF m \in DOMAIN Mono2Atoms THEN Mono2Atoms[m]
    ELSE <<"1", m>>

\* The two factors whose product a key is.
Factors(k) ==
    IF k \in DOMAIN ProductFactors THEN ProductFactors[k]
    ELSE <<Sym(AtomsOf(k)[1]), Sym(AtomsOf(k)[2])>>

\* The keys in a fixed order, to sum over.
KeySeq ==
    <<"1", "x", "y", "z", Dummy, "x**2", "x*y", "x*z", "y**2", "y*z", "z**2",
      "x*(y + 1)", "(x + 1)**2", "x + 1">>

ZeroExpr == [k \in KeyNames |-> 0]

Term(k, coef) == [k2 \in KeyNames |-> IF k2 = k THEN coef ELSE 0]

\* a + b: terms with the same key are combined.
AddExpr(e1, e2) == [k \in KeyNames |-> e1[k] + e2[k]]

\* -1 * a: the factor goes into every term.
NegExpr(e) == [k \in KeyNames |-> 0 - e[k]]

\* set(coeff_dict.keys())
DictKeys(d) == { k \in KeyNames : d[k] # 0 }

\* The coefficient of the monomial of atoms u and v in the product f*g.
CoefIn(f, g, u, v) ==
    IF u = v THEN f[u] * g[u] ELSE f[u] * g[v] + f[v] * g[u]

\* Each key multiplied out: the coefficient of every monomial in it.
Expansion ==
    [k \in KeyNames |-> [m \in MonoNames |->
        CoefIn(Factors(k)[1], Factors(k)[2], AtomsOf(m)[1], AtomsOf(m)[2])]]

\* expr.expand(): every product is multiplied out and like terms are
\* collected.
expand(e) ==
    [m \in KeyNames |->
        IF m \in MonoNames
        THEN SumTo([k \in KeyNames |-> e[k] * Expansion[k][m]], KeySeq, Len(KeySeq))
        ELSE 0]

\* float(): exact on the integers the model draws (all far below 2^53).
float(v) == v


\* ------------------------------------------------------------------------
\* Matrices.  A matrix is [rows, cols, e, symbolic], with e indexed from 0 as
\* in Python; the entries of a symbolic matrix are expressions, those of a
\* numeric one are numbers.

Mat(r, k, f) == [rows |-> r, cols |-> k, e |-> f, symbolic |-> FALSE]

SymMat(r, k, f) == [rows |-> r, cols |-> k, e |-> f, symbolic |-> TRUE]

\* matrix[i, j] != 0
NonZeroAt(m, i, j) ==
    IF m.symbolic THEN m.e[<<i, j>>] # ZeroExpr ELSE m.e[<<i, j>>] # 0

\* matrix[a:b, a:b]
Slice(m, lo, hi) ==
    [rows |-> hi - lo, cols |-> hi - lo, symbolic |-> m.symbolic,
     e |-> [p \in Idx(hi - lo) \X Idx(hi - lo) |-> m.e[<<p[1] + lo, p[2] + lo>>]]]

\* ------------------------------------------------------------------------
\* get_diag_block_idxs

\* Mutant: the range stops one too late, range(n-1, c-1, -1).
RECURSIVE ForLoopToCursor(_, _, _, _)
ForLoopToCursor(m, cc, l, bb) ==
    IF NonZeroAt(m, l, cc) \/ NonZeroAt(m, cc, l)
    THEN [l |-> l, b |-> bb]
    ELSE LET b2 == IF l = cc + 1 THEN Append(bb, l) ELSE bb
         IN  IF l - 1 >= cc THEN ForLoopToCursor(m, cc, l - 1, b2)
                            ELSE [l |-> l, b |-> b2]

\* Mutant: the boundary test compares with c, elif l == c, and never holds.
RECURSIVE ForLoopNoBoundary(_, _, _, _)
ForLoopNoBoundary(m, cc, l, bb) ==
    IF NonZeroAt(m, l, cc) \/ NonZeroAt(m, cc, l)
    THEN [l |-> l, b |-> bb]
    ELSE LET b2 == IF l = cc THEN Append(bb, l) ELSE bb
         IN  IF l - 1 > cc THEN ForLoopNoBoundary(m, cc, l - 1, b2)
                           ELSE [l |-> l, b |-> b2]

\* The for loop of one iteration of the while loop, from candidate l down:
\* the value l is left with, and b after the appends.
RECURSIVE ForLoop(_, _, _, _)
ForLoop(m, cc, l, bb) ==
    IF NonZeroAt(m, l, cc) \/ NonZeroAt(m, cc, l)
    THEN [l |-> l, b |-> bb]
    ELSE LET b2 == IF l = cc + 1 THEN Append(bb, l) ELSE bb
         IN  IF l - 1 > cc THEN ForLoop(m, cc, l - 1, b2)
                           ELSE [l |-> l, b |-> b2]

\* Mutant: return b, the final boundary n forgotten.
ReturnIdxsNoEnd(bb, n) == bb

\* The value returned once the while loop is left.
ReturnIdxs(bb, n) == bb \o <<n>>

\* The while loop from cursor cc on, and the return.
RECURSIVE WhileLoop(_, _, _)
WhileLoop(m, cc, bb) ==
    IF cc < m.rows - 1
    THEN LET r == ForLoop(m, cc, m.rows - 1, bb) IN WhileLoop(m, r.l, r.b)
    ELSE ReturnIdxs(bb, m.rows)

\* The boundaries returned for a square matrix.
get_diag_block_idxs(m) == WhileLoop(m, 0, <<>>)

\* ------------------------------------------------------------------------
\* split_by_diag_blocks

\* [matrix[a:b, a:b] for (a, b) in zip([0]+idxs[:-1], idxs)]
BlocksAt(m, ix) ==
    [k \in 1 .. Len(ix) |-> Slice(m, IF k = 1 THEN 0 ELSE ix[k - 1], ix[k])]

\* The blocks returned for a square matrix.
split_by_diag_blocks(m) == BlocksAt(m, get_diag_block_idxs(m))
\* ------------------------------------------------------------------------
\* lin_expr_coeffs

\* set(variables) | set([S.One, dummy])
OkSet(vs) == { vs[i] : i \in DOMAIN vs } \cup {"1", Dummy}

\* The two values returned: coeffs, const.
CoeffsOf(coeff_dict, vs) ==
    <<[i \in DOMAIN vs |-> float(coeff_dict[vs[i]])], float(coeff_dict["1"])>>

\* Mutant: the expansion is not tried.
LinExprCoeffsNoExpand(e, vs) ==
    LET expr == AddExpr(Term(Dummy, 1), e)
    IN  IF DictKeys(expr) \subseteq OkSet(vs)
        THEN Returned(CoeffsOf(expr, vs))
        ELSE Raised("NonLinearExpressionError")

\* Mutant: the keys are not checked again after the expansion.
LinExprCoeffsNoRecheck(e, vs) ==
    LET expr == AddExpr(Term(Dummy, 1), e)
    IN  IF DictKeys(expr) \subseteq OkSet(vs)
        THEN Returned(CoeffsOf(expr, vs))
        ELSE Returned(CoeffsOf(expand(expr), vs))

lin_expr_coeffs(e, vs) ==
    LET expr == AddExpr(Term(Dummy, 1), e)
    IN  IF DictKeys(expr) \subseteq OkSet(vs)
        THEN Returned(CoeffsOf(expr, vs))
        ELSE LET expanded == expand(expr)
             IN  IF DictKeys(expanded) \subseteq OkSet(vs)
                 THEN Returned(CoeffsOf(expanded, vs))
                 ELSE Raised("NonLinearExpressionError")

\* ------------------------------------------------------------------------
\* prepare_objective_for_sdp

\* The directions drawn as inputs.
ObjectiveTypes ==
    {"min", "minimize", "max", "maximize", "MAX", "Minimize", "maximum"}

\* objective_type.lower()
Lower(t) ==
    CASE t = "MAX" -> "max"
      [] t = "Minimize" -> "minimize"
      [] OTHER -> t

\* Mutant: the direction is compared as given.
PrepareObjectiveAsGiven(e, vs, t) ==
    IF t \in {"max", "maximize"}
    THEN LET r == lin_expr_coeffs(NegExpr(e), vs)
         IN  IF r.status = "ok" THEN Returned(r.value[1]) ELSE r
    ELSE IF t \in {"min", "minimize"}
    THEN LET r == lin_expr_coeffs(e, vs)
         IN  IF r.status = "ok" THEN Returned(r.value[1]) ELSE r
    ELSE Raised("ValueError")

prepare_objective_for_sdp(e, vs, t) ==
    IF Lower(t) \in {"max", "maximize"}
    THEN LET r == lin_expr_coeffs(NegExpr(e), vs)
         IN  IF r.status = "ok" THEN Returned(r.value[1]) ELSE r
    ELSE IF Lower(t) \in {"min", "minimize"}
    THEN LET r == lin_expr_coeffs(e, vs)
         IN  IF r.status = "ok" THEN Returned(r.value[1]) ELSE r
    ELSE Raised("ValueError")

\* ------------------------------------------------------------------------
\* lm_sym_to_coeffs

\* Mutant: every coefficient matrix is filled with the first variable's
\* coefficients, coeffs[i][elem] = coeffs_elem[0].
LmSymToCoeffsFirstOnly(lm, vs) ==
    LET cell == [p \in DOMAIN lm.e |-> lin_expr_coeffs(lm.e[p], vs)]
    IN  IF \E p \in DOMAIN lm.e : cell[p].status # "ok"
        THEN Raised("NonLinearMatrixError")
        ELSE Returned(
               <<[i \in DOMAIN vs |->
                    Mat(lm.rows, lm.cols, [p \in DOMAIN lm.e |-> cell[p].value[1][1]])],
                 Mat(lm.rows, lm.cols, [p \in DOMAIN lm.e |-> cell[p].value[2]])>>)

\* The two values returned, coeffs and consts, or NonLinearMatrixError.
lm_sym_to_coeffs(lm, vs) ==
    LET cell == [p \in DOMAIN lm.e |-> lin_expr_coeffs(lm.e[p], vs)]
    IN  IF \E p \in DOMAIN lm.e : cell[p].status # "ok"
        THEN Raised("NonLinearMatrixError")
        ELSE Returned(
               <<[i \in DOMAIN vs |->
                    Mat(lm.rows, lm.cols, [p \in DOMAIN lm.e |-> cell[p].value[1][i]])],
                 Mat(lm.rows, lm.cols, [p \in DOMAIN lm.e |-> cell[p].value[2]])>>)

\* ------------------------------------------------------------------------
\* LMIs.  An LMI is [cls, lhs, rhs]; a bare matrix given in place of an LMI
\* is [cls |-> "Matrix", lhs |-> the matrix].

\* The scalar 0 that rhs defaults to.
ScalarZero == SymMat(0, 0, <<>>)

\* LMI_PSD(lhs, rhs), LMI_PD, LMI_NSD, LMI_ND
Lmi(cls, lhs, rhs) == [cls |-> cls, lhs |-> lhs, rhs |-> rhs]

BareMatrix(m) == [cls |-> "Matrix", lhs |-> m, rhs |-> ScalarZero]

\* LMI = LMI_PSD, with rhs=0
LMI(m) == Lmi("LMI_PSD", m, ScalarZero)

\* a - b, entry by entry; the scalar 0 stands for the zero matrix.
MatSub(m1, m2) ==
    IF m2 = ScalarZero THEN m1
    ELSE IF m1 = ScalarZero
    THEN SymMat(m2.rows, m2.cols, [p \in DOMAIN m2.e |-> NegExpr(m2.e[p])])
    ELSE SymMat(m1.rows, m1.cols,
                [p \in DOMAIN m1.e |-> AddExpr(m1.e[p], NegExpr(m2.e[p]))])

\* The greater-than side and the less-than side of a relation.
Gts(r) == IF r.cls \in {"LMI_PSD", "LMI_PD"} THEN r.lhs ELSE r.rhs
Lts(r) == IF r.cls \in {"LMI_PSD", "LMI_PD"} THEN r.rhs ELSE r.lhs

\* lmi.canonical().gts: the matrix M of the canonical form M >= 0 or M > 0.
CanonicalGts(r) == MatSub(Gts(r), Lts(r))

\* ------------------------------------------------------------------------
\* prepare_lmi_for_sdp

\* The list the argument is turned into.
AsList(arg) == IF arg.single THEN <<arg.items[1]>> ELSE arg.items

\* The symmetric linear matrices, one for each LMI of the list.
Slms(lmis) ==
    [i \in DOMAIN lmis |->
        CanonicalGts(IF lmis[i].cls = "Matrix" THEN LMI(lmis[i].lhs) ELSE lmis[i])]

\* The loop slms += split_by_diag_blocks(slm).
SplitAll(slms) == Concat([i \in DOMAIN slms |-> split_by_diag_blocks(slms[i])])

prepare_lmi_for_sdp(arg, vs, opt) ==
    LET orig_slms == Slms(AsList(arg))
    IN  IF opt /\ \E i \in DOMAIN orig_slms : orig_slms[i].rows # orig_slms[i].cols
        THEN Raised("NonSquareMatrixError")
        ELSE LET slms == IF opt THEN SplitAll(orig_slms) ELSE orig_slms
                 coeffs == [k \in DOMAIN slms |-> lm_sym_to_coeffs(slms[k], vs)]
             IN  IF \E k \in DOMAIN slms : coeffs[k].status # "ok"
                 THEN Raised("NonLinearMatrixError")
                 ELSE Returned([k \in DOMAIN slms |-> coeffs[k].value])

\* ------------------------------------------------------------------------
\* to_cvxopt

\* cvxopt's matrix(list): a column vector.
CvxColumn(list) == Mat(Len(list), 1, [p \in Idx(Len(list)) \X Idx(1) |-> list[p[1] + 1]])

\* cvxopt's matrix(list of lists): every inner list is a column.
CvxMatrix(lists) ==
    LET r == IF lists = <<>> THEN 0 ELSE Len(lists[1])
    IN  Mat(r, Len(lists), [p \in Idx(r) \X Idx(Len(lists)) |-> lists[p[2] + 1][p[1] + 1]])

\* numpy's a.flatten(): row after row.
Flatten(a) ==
    [k \in 1 .. a.rows * a.cols |-> a.e[<<(k - 1) \div a.cols, (k - 1) % a.cols>>]]

\* numpy's a.tolist(): the list of the rows.
ToList(a) == [i \in 1 .. a.rows |-> [j \in 1 .. a.cols |-> a.e[<<i - 1, j - 1>>]]]

\* -a
NegMat(a) == Mat(a.rows, a.cols, [p \in DOMAIN a.e |-> 0 - a.e[p]])

\* astype(float)
AsFloat(list) == [k \in DOMAIN list |-> float(list[k])]

\* The three values returned: c, Gs, hs.
to_cvxopt(obj, arg, vs, t, opt, available) ==
    IF ~available THEN Raised("NotAvailableError")
    ELSE LET obj_coeffs == prepare_objective_for_sdp(obj, vs, t)
         IN  IF obj_coeffs.status # "ok" THEN obj_coeffs
    ELSE LET lmi_coeffs == prepare_lmi_for_sdp(arg, vs, opt)
         IN  IF lmi_coeffs.status # "ok" THEN lmi_coeffs
    ELSE Returned(
           <<CvxColumn(obj_coeffs.value),
             [k \in DOMAIN lmi_coeffs.value |->
                 CvxMatrix([i \in DOMAIN lmi_coeffs.value[k][1] |->
                              AsFloat(Flatten(NegMat(lmi_coeffs.value[k][1][i])))])],
             [k \in DOMAIN lmi_coeffs.value |->
                 CvxMatrix([i \in 1 .. lmi_coeffs.value[k][2].rows |->
                              AsFloat(ToList(lmi_coeffs.value[k][2])[i])])]>>)

\* ------------------------------------------------------------------------
\* The expressions drawn as inputs: an affine part in 1, x and y, plus up to
\* two terms that are not affine as written.  Each such term comes with the
\* polynomial it stands for.

Poly(f) == [m \in MonoNames |-> IF m \in DOMAIN f THEN f[m] ELSE 0]

Piece(k, coef, f) == [key |-> k, coef |-> coef, means |-> Poly(f)]

PieceSeq ==
    << Piece("x*y", 1, "x*y" :> 1),
       Piece("x*y", -1, "x*y" :> -1),
       Piece("x**2", 1, "x**2" :> 1),
       Piece("x**2", -1, "x**2" :> -1),
       Piece("x*(y + 1)", 1, ("x*y" :> 1) @@ ("x" :> 1)),
       Piece("x*(y + 1)", -1, ("x*y" :> -1) @@ ("x" :> -1)),
       Piece("(x + 1)**2", 1, ("x**2" :> 1) @@ ("x" :> 2) @@ ("1" :> 1)),
       Piece("x + 1", 2, ("x" :> 2) @@ ("1" :> 2)) >>

Pieces == { PieceSeq[i] : i \in DOMAIN PieceSeq }

PieceSets ==
    { E \in SUBSET Pieces :
        /\ Cardinality(E) <= 2
        /\ \A p \in E, q \in E : p.key = q.key => p = q }

AffineParts == [{"1", "x", "y"} -> (0 - MaxCoef) .. MaxCoef]

\* The expression a + sum of the pieces, as sympy stores it.
Written(a, E) ==
    [k \in KeyNames |->
        (IF k \in DOMAIN a THEN a[k] ELSE 0)
        + SumTo([p \in Pieces |-> IF p \in E /\ p.key = k THEN p.coef ELSE 0],
                PieceSeq, Len(PieceSeq))]

\* The polynomial that expression stands for.
Meant(a, E) ==
    [m \in MonoNames |->
        (IF m \in DOMAIN a THEN a[m] ELSE 0)
        + SumTo([p \in Pieces |-> IF p \in E THEN p.means[m] ELSE 0],
                PieceSeq, Len(PieceSeq))]

VarLists ==
    { <<"x", "y", "z">>, <<"y", "x">>, <<"x">>, <<>> }

\* The matrices the splitter is run on.  An off-diagonal pair {i, j} is 0
\* (zero on both sides), 2 (nonzero on both sides) or 1 (nonzero on one side
\* only: above the diagonal when side = 1, below it when side = 0); the
\* whole diagonal is d.
Above(n) == {p \in Idx(n) \X Idx(n) : p[1] < p[2]}

SquareMatrix(n, pat, side, d) ==
    Mat(n, n, [p \in Idx(n) \X Idx(n) |->
                 IF p[1] = p[2] THEN d
                 ELSE LET q == IF p[1] < p[2] THEN p ELSE <<p[2], p[1]>>
                          up == IF p[1] < p[2] THEN 1 ELSE 0
                      IN  IF pat[q] = 2 \/ (pat[q] = 1 /\ side = up)
                          THEN 1 ELSE 0])

\* Some matrices that are not square; their entries are never read.
NonSquareMatrices ==
    { Mat(1, 2, [p \in Idx(1) \X Idx(2) |-> 1]),
      Mat(2, 1, [p \in Idx(2) \X Idx(1) |-> 1]) }

\* The LMIs drawn as inputs.

\* The expression k + cx*x + cy*y + cz*z, written in that expanded form.
Affine(k, cx, cy, cz) ==
    [n \in KeyNames |-> CASE n = "1" -> k [] n = "x" -> cx [] n = "y" -> cy
                          [] n = "z" -> cz [] OTHER -> 0]

Num(k) == Affine(k, 0, 0, 0)

\* Matrix([[...], [...]])
FromRows(rows) ==
    SymMat(Len(rows), Len(rows[1]),
           [p \in Idx(Len(rows)) \X Idx(Len(rows[1])) |-> rows[p[1] + 1][p[2] + 1]])

\* [[x, y], [y, z + 1]]
MatA == FromRows(<< <<Affine(0, 1, 0, 0), Affine(0, 0, 1, 0)>>,
                    <<Affine(0, 0, 1, 0), Affine(1, 0, 0, 1)>> >>)
\* [[y, 0], [0, 2*x]]
MatB == FromRows(<< <<Affine(0, 0, 1, 0), Num(0)>>,
                    <<Num(0), Affine(0, 2, 0, 0)>> >>)
\* [[x + 1]]
MatC == FromRows(<< <<Affine(1, 1, 0, 0)>> >>)
\* [[1, x + 1], [0, y]], not symmetric
MatD == FromRows(<< <<Num(1), Affine(1, 1, 0, 0)>>,
                    <<Num(0), Affine(0, 0, 1, 0)>> >>)
\* [[x, 1, 0], [1, y, 0], [0, 0, z]]
MatE == FromRows(<< <<Affine(0, 1, 0, 0), Num(1), Num(0)>>,
                    <<Num(1), Affine(0, 0, 1, 0), Num(0)>>,
                    <<Num(0), Num(0), Affine(0, 0, 0, 1)>> >>)
\* [[x, x*y], [x*y, 1]], not linear
MatF == FromRows(<< <<Affine(0, 1, 0, 0), Term("x*y", 1)>>,
                    <<Term("x*y", 1), Num(1)>> >>)
\* [[x, 0, y, 0], [0, x, 0, y], [y, 0, z, 0], [0, y, 0, z]], one block
MatG == FromRows(<< <<Affine(0, 1, 0, 0), Num(0), Affine(0, 0, 1, 0), Num(0)>>,
                    <<Num(0), Affine(0, 1, 0, 0), Num(0), Affine(0, 0, 1, 0)>>,
                    <<Affine(0, 0, 1, 0), Num(0), Affine(0, 0, 0, 1), Num(0)>>,
                    <<Num(0), Affine(0, 0, 1, 0), Num(0), Affine(0, 0, 0, 1)>> >>)

\* [[0, 1], [1, 2]]
RhsA == FromRows(<< <<Num(0), Num(1)>>, <<Num(1), Num(2)>> >>)
\* [[30, 0], [0, 40]]
RhsB == FromRows(<< <<Num(30), Num(0)>>, <<Num(0), Num(40)>> >>)
\* [[5]]
RhsC == FromRows(<< <<Num(5)>> >>)
\* [[1, 0, 0], [0, 1, 0], [0, 0, 1]]
RhsE == FromRows(<< <<Num(1), Num(0), Num(0)>>, <<Num(0), Num(1), Num(0)>>,
                    <<Num(0), Num(0), Num(1)>> >>)

LmiClasses == {"LMI_PSD", "LMI_PD", "LMI_NSD", "LMI_ND"}

LhsMatrices == {MatA, MatB, MatC, MatD, MatE, MatF, MatG}

\* The right-hand sides of the shape of m, and the default.
RhsFor(m) == {ScalarZero} \cup {r \in {RhsA, RhsB, RhsC, RhsE} : r.rows = m.rows}

Items ==
    { BareMatrix(m) : m \in LhsMatrices } \cup
    UNION { { Lmi(cls, m, r) : cls \in LmiClasses, r \in RhsFor(m) } :
              m \in LhsMatrices }

\* The LMIs that lists are made of.
ListItems ==
    { Lmi("LMI_PSD", MatA, RhsA), Lmi("LMI_NSD", MatB, RhsB),
      Lmi("LMI_ND", MatC, ScalarZero), Lmi("LMI_PD", MatG, ScalarZero),
      BareMatrix(MatD), BareMatrix(MatE), BareMatrix(MatF) }

\* What is given as lmi: one LMI or matrix, or a list of them.
LmiArgs ==
    { [single |-> TRUE, items |-> <<i>>] : i \in Items } \cup
    { [single |-> FALSE, items |-> s] :
        s \in UNION { [1 .. n -> ListItems] : n \in 0 .. MaxLmis } }

LmiVarLists == { <<"x", "y", "z">>, <<"z", "x", "y">>, <<"x", "y">> }

\* 1 + x - 3*y and 1 + x*y
Objectives == { Affine(1, 1, -3, 0), AddExpr(Num(1), Term("x*y", 1)) }

\* ------------------------------------------------------------------------
\* The three specifications.

NoMatrix == Mat(0, 0, <<>>)
NoLmi == [single |-> FALSE, items |-> <<>>]

SplitIdle ==
    /\ matrix = NoMatrix
    /\ c = 0
    /\ b = <<>>
    /\ iters = 0
    /\ idxs = <<>>
    /\ blocks = <<>>

\* Spec: split_by_diag_blocks(matrix).
InitSplit ==
    /\ pc = "start"
    /\ call = "split_by_diag_blocks"
    /\ \/ \E n \in 1 .. MaxN :
            \E pat \in [Above(n) -> {0, 1, 2}], side \in {0, 1}, d \in {0, 1} :
                matrix = SquareMatrix(n, pat, side, d)
       \/ matrix \in NonSquareMatrices
    /\ c = 0
    /\ b = <<>>
    /\ iters = 0
    /\ idxs = <<>>
    /\ blocks = <<>>
    /\ linear_expr = ZeroExpr
    /\ variables = <<>>
    /\ objective_type = ""
    /\ meaning = Poly(<<>>)
    /\ lmi = NoLmi
    /\ optimize_by_diag_blocks = FALSE
    /\ cvxopt = FALSE
    /\ ret = Raised("")

\* split_by_diag_blocks calls get_diag_block_idxs, which checks the shape.
Enter ==
    /\ pc = "start"
    /\ call = "split_by_diag_blocks"
    /\ IF matrix.rows # matrix.cols
       THEN pc' = "raised" /\ ret' = Raised("NonSquareMatrixError")
       ELSE pc' = "while" /\ ret' = ret
    /\ UNCHANGED <<splitVars, inputVars>>

\* One iteration of the while loop.
WhileIter ==
    /\ pc = "while"
    /\ c < matrix.rows - 1
    /\ LET r == ForLoop(matrix, c, matrix.rows - 1, b)
       IN  /\ c' = r.l
           /\ b' = r.b
    /\ iters' = iters + 1
    /\ UNCHANGED <<pc, matrix, idxs, blocks, inputVars, ret>>

\* The loop is left: get_diag_block_idxs returns, split_by_diag_blocks slices.
WhileExit ==
    /\ pc = "while"
    /\ ~(c < matrix.rows - 1)
    /\ idxs' = ReturnIdxs(b, matrix.rows)
    /\ blocks' = BlocksAt(matrix, idxs')
    /\ ret' = Returned(blocks')
    /\ pc' = "done"
    /\ UNCHANGED <<matrix, c, b, iters, inputVars>>

NextSplit == Enter \/ WhileIter \/ WhileExit

Spec == InitSplit /\ [][NextSplit]_vars

\* SpecLin: lin_expr_coeffs(linear_expr, variables) and
\* prepare_objective_for_sdp(linear_expr, variables, objective_type).
InitLin ==
    /\ pc = "start"
    /\ \E a \in AffineParts, E \in PieceSets :
          /\ linear_expr = Written(a, E)
          /\ meaning = Meant(a, E)
    /\ variables \in VarLists
    /\ \/ call = "lin_expr_coeffs" /\ objective_type = ""
       \/ call = "prepare_objective_for_sdp" /\ objective_type \in ObjectiveTypes
    /\ lmi = NoLmi
    /\ optimize_by_diag_blocks = FALSE
    /\ cvxopt = FALSE
    /\ ret = Raised("")
    /\ SplitIdle

Finish(r) ==
    /\ ret' = r
    /\ pc' = IF r.status = "ok" THEN "done" ELSE "raised"
    /\ UNCHANGED <<splitVars, inputVars>>

LinExprCoeffs ==
    /\ pc = "start"
    /\ call = "lin_expr_coeffs"
    /\ Finish(lin_expr_coeffs(linear_expr, variables))

PrepareObjectiveForSdp ==
    /\ pc = "start"
    /\ call = "prepare_objective_for_sdp"
    /\ Finish(prepare_objective_for_sdp(linear_expr, variables, objective_type))

NextLin == LinExprCoeffs \/ PrepareObjectiveForSdp

SpecLin == InitLin /\ [][NextLin]_vars

\* SpecLmi: prepare_lmi_for_sdp(lmi, variables, optimize_by_diag_blocks) and
\* to_cvxopt(linear_expr, lmi, variables, objective_type,
\* optimize_by_diag_blocks).
InitLmi ==
    /\ pc = "start"
    /\ lmi \in LmiArgs
    /\ variables \in LmiVarLists
    /\ optimize_by_diag_blocks \in BOOLEAN
    /\ \/ /\ call = "prepare_lmi_for_sdp"
          /\ linear_expr = ZeroExpr /\ objective_type = "" /\ cvxopt = FALSE
       \/ /\ call = "to_cvxopt"
          /\ linear_expr = Affine(1, 1, -3, 0) /\ objective_type = "min"
          /\ cvxopt = FALSE
       \/ /\ call = "to_cvxopt"
          /\ linear_expr \in Objectives
          /\ objective_type \in {"min", "MAX", "maximum"}
          /\ cvxopt = TRUE
    /\ meaning = Poly(<<>>)
    /\ ret = Raised("")
    /\ SplitIdle

PrepareLmiForSdp ==
    /\ pc = "start"
    /\ call = "prepare_lmi_for_sdp"
    /\ Finish(prepare_lmi_for_sdp(lmi, variables, optimize_by_diag_blocks))

ToCvxopt ==
    /\ pc = "start"
    /\ call = "to_cvxopt"
    /\ Finish(to_cvxopt(linear_expr, lmi, variables, objective_type,
                        optimize_by_diag_blocks, cvxopt))

NextLmi == PrepareLmiForSdp \/ ToCvxopt

SpecLmi == InitLmi /\ [][NextLmi]_vars

\* ------------------------------------------------------------------------
\* Properties of the splitter.

\* The position in ix of the block that holds index i.
BlockOf(ix, i) == CHOOSE k \in DOMAIN ix :
                     /\ i < ix[k]
                     /\ \A k2 \in DOMAIN ix : i < ix[k2] => k <= k2

\* The matrix can be cut before index k: nothing nonzero joins the indices
\* below k to those from k on.
ValidCut(m, k) ==
    \A i \in Idx(m.rows), j \in Idx(m.rows) :
        (i < k /\ k <= j) => ~NonZeroAt(m, i, j) /\ ~NonZeroAt(m, j, i)

\* C1: every entry whose row and column fall in two different returned
\* blocks is zero.
C1_NoEntryLost ==
    pc = "done" =>
        \A i \in Idx(matrix.rows), j \in Idx(matrix.rows) :
            BlockOf(idxs, i) # BlockOf(idxs, j) => ~NonZeroAt(matrix, i, j)

\* C9: every iteration of the while loop moves the cursor up, the loop is
\* left with c = n-1 after at most n-1 iterations, and the boundaries
\* returned are strictly increasing, within 1..n, and end with n.
C9_LoopState ==
    /\ pc = "while" => c <= matrix.rows - 1 /\ iters <= c
    /\ pc = "done" =>
        /\ c = matrix.rows - 1
        /\ iters <= matrix.rows - 1
        /\ Len(idxs) >= 1
        /\ idxs[Len(idxs)] = matrix.rows
        /\ \A k \in DOMAIN idxs : idxs[k] \in 1 .. matrix.rows
        /\ \A k \in DOMAIN idxs : k > 1 => idxs[k - 1] < idxs[k]

\* C9, over a whole run: the cursor c rises at every iteration of the while
\* loop, and the bounds above hold in every state.
C9_Terminates == [][WhileIter => c' > c]_vars /\ []C9_LoopState

\* A matrix of three rows or more is split in two blocks or more after two
\* iterations or more.
C9_Witness == pc = "done" /\ iters >= 2 /\ Len(idxs) >= 2 /\ matrix.rows >= 3

\* C10: no returned block can be cut further, and every index at which the
\* matrix can be cut is a returned boundary.
C10_BlocksMinimal ==
    pc = "done" =>
        /\ \A k \in 1 .. matrix.rows - 1 :
               ValidCut(matrix, k) => k \in Range(idxs)
        /\ \A t \in DOMAIN idxs :
               LET lo == IF t = 1 THEN 0 ELSE idxs[t - 1]
                   hi == idxs[t]
               IN  \A k \in (lo + 1) .. (hi - 1) :
                       \E i \in lo .. (hi - 1), j \in lo .. (hi - 1) :
                           /\ i < k /\ k <= j
                           /\ NonZeroAt(matrix, i, j) \/ NonZeroAt(matrix, j, i)

\* Two blocks or more are returned, one of them of three rows or more.
C10_Witness ==
    /\ pc = "done"
    /\ Len(idxs) >= 2
    /\ \E t \in DOMAIN idxs : idxs[t] - (IF t = 1 THEN 0 ELSE idxs[t - 1]) >= 3

\* The boundaries of the block-diagonal arrangement with cuts S, in order.
RECURSIVE SortedSeq(_)
SortedSeq(S) ==
    IF S = {} THEN <<>>
    ELSE LET lo == CHOOSE x \in S : \A y \in S : x <= y
         IN  <<lo>> \o SortedSeq(S \ {lo})

\* The indices at which matrix can be cut.  matrix is the block-diagonal
\* matrix built from blocks B1..Bk exactly when the boundaries between them
\* are some of these.
ValidCuts == {k \in 1 .. matrix.rows - 1 : ValidCut(matrix, k)}

\* B1..Bk, for the boundaries S between them.
BuildingBlocks(S) == BlocksAt(matrix, SortedSeq(S \cup {matrix.rows}))

AffineInVariables ==
    /\ \A m \in DOMAIN Mono2Atoms : meaning[m] = 0
    /\ \A v \in Syms : meaning[v] # 0 => v \in Range(variables)

\* [a1, ..., an], in the order of the variable list.
MeantCoeffs == [i \in DOMAIN variables |-> meaning[variables[i]]]

NegList(s) == [i \in DOMAIN s |-> 0 - s[i]]

\* The products of two distinct variables of the variable list.
VariableProducts ==
    { m \in DOMAIN Mono2Atoms :
        /\ Mono2Atoms[m][1] # Mono2Atoms[m][2]
        /\ Mono2Atoms[m][1] \in Range(variables)
        /\ Mono2Atoms[m][2] \in Range(variables) }

ValidDirection == Lower(objective_type) \in {"min", "minimize", "max", "maximize"}

Finished == pc \in {"done", "raised"}

\* C2: for an expression a0 + sum(a_i * x_i) over the variable list,
\* lin_expr_coeffs succeeds and returns [a1..an] in the order of the list and
\* a0, however the expression is written.
C2_CoeffsOfAffine ==
    (Finished /\ call = "lin_expr_coeffs" /\ AffineInVariables) =>
        /\ ret.status = "ok"
        /\ ret.value = <<MeantCoeffs, meaning["1"]>>

\* The expression needs expanding, the list is not in alphabetical order, and
\* a variable of the list does not occur.
C2_Witness ==
    /\ pc = "done" /\ call = "lin_expr_coeffs" /\ AffineInVariables
    /\ linear_expr["x*(y + 1)"] # 0
    /\ variables = <<"y", "x">>
    /\ meaning["x"] = -1 /\ meaning["y"] = 0 /\ meaning["1"] = 1

\* C3 as stated: an expression that contains a product of two distinct
\* variables of the list makes lin_expr_coeffs, and prepare_objective_for_sdp,
\* fail with the non-linear-expression error.
C3_ProductWrittenFails ==
    (/\ Finished
     /\ call = "prepare_objective_for_sdp" => ValidDirection
     /\ \E m \in VariableProducts : linear_expr[m] # 0)
    => ret = Raised("NonLinearExpressionError")

\* C3 amended: an expression whose expansion holds a product of two distinct
\* variables of the list makes both fail with that error.
C3_ProductMeantFails ==
    (/\ Finished
     /\ call = "prepare_objective_for_sdp" => ValidDirection
     /\ \E m \in VariableProducts : meaning[m] # 0)
    => ret = Raised("NonLinearExpressionError")

\* The product x*y is not written, it comes from expanding x*(y + 1).
C3_Witness ==
    /\ pc = "raised"
    /\ call = "prepare_objective_for_sdp"
    /\ linear_expr["x*y"] = 0
    /\ linear_expr["x*(y + 1)"] # 0
    /\ meaning["x*y"] # 0
    /\ "y" \in Range(variables)

\* C7: for an objective affine in the variables, 'max' and 'maximize' in any
\* letter case give the negation of what 'min' and 'minimize' give, which is
\* the coefficients in the order of the list, without the constant term.
C7_MaxNegatesMin ==
    (Finished /\ call = "prepare_objective_for_sdp" /\ AffineInVariables) =>
        /\ Lower(objective_type) \in {"min", "minimize"} =>
               ret = Returned(MeantCoeffs)
        /\ Lower(objective_type) \in {"max", "maximize"} =>
               /\ ret = Returned(NegList(MeantCoeffs))
               /\ ret.value = NegList(prepare_objective_for_sdp(
                                          linear_expr, variables, "min").value)

\* 'MAX' is given with an objective that has a constant term.
C7_Witness ==
    /\ pc = "done" /\ call = "prepare_objective_for_sdp"
    /\ objective_type = "MAX"
    /\ variables = <<"x", "y", "z">>
    /\ meaning["1"] # 0
    /\ ret.value = <<-1, 1, 0>>

\* ------------------------------------------------------------------------
\* Properties of prepare_lmi_for_sdp and to_cvxopt.

\* The coefficient of atom a in entry p of one side of a relation.
SideCoef(m, p, a) == IF m = ScalarZero THEN 0 ELSE m.e[p][a]

\* The coefficient of atom a in entry p of L - R for a PSD or PD relation and
\* for a bare matrix, of R - L for an NSD or ND relation.
CanonicalCoef(r, p, a) ==
    IF r.cls \in {"LMI_NSD", "LMI_ND"}
    THEN SideCoef(r.rhs, p, a) - SideCoef(r.lhs, p, a)
    ELSE SideCoef(r.lhs, p, a) - SideCoef(r.rhs, p, a)

\* The boundaries of the blocks of each given LMI's canonical matrix: those
\* the splitter finds, or the whole matrix when the flag is off.
Boundaries ==
    LET slms == Slms(AsList(lmi))
    IN  [i \in DOMAIN slms |->
            IF optimize_by_diag_blocks THEN get_diag_block_idxs(slms[i])
            ELSE <<slms[i].rows>>]

\* For each element expected in the result, in order: the LMI it comes from
\* and the rows [lo, hi) of its block.
Expected ==
    Concat([i \in DOMAIN Boundaries |->
              [t \in DOMAIN Boundaries[i] |->
                  [input |-> i,
                   lo |-> IF t = 1 THEN 0 ELSE Boundaries[i][t - 1],
                   hi |-> Boundaries[i][t]]]])

PreparedLmis == pc = "done" /\ call = "prepare_lmi_for_sdp"

\* The boundaries of the diagonal blocks of m: the indices at which m can be
\* cut, and its size.
DiagonalBlocks(m) ==
    SortedSeq({k \in 1 .. m.rows - 1 : ValidCut(m, k)}) \o <<m.rows>>

\* For each diagonal block of each given LMI's canonical matrix, in order:
\* the LMI it comes from and its rows [lo, hi).
BlocksOfInputs ==
    LET slms == Slms(AsList(lmi))
        ends == [i \in DOMAIN slms |-> DiagonalBlocks(slms[i])]
    IN  Concat([i \in DOMAIN ends |->
                  [t \in DOMAIN ends[i] |->
                      [input |-> i,
                       lo |-> IF t = 1 THEN 0 ELSE ends[i][t - 1],
                       hi |-> ends[i][t]]]])

\* C5: with the flag on, the list returned has one element for each diagonal
\* block of each given LMI's canonical matrix, in the order of the LMIs and
\* from the top block down, every matrix of an element being of the size of
\* its block; with the flag off it has one element for each LMI, of the
\* LMI's size.
C5_OneElementPerBlock ==
    PreparedLmis =>
        LET slms == Slms(AsList(lmi))
            whole == [i \in DOMAIN slms |-> [input |-> i, lo |-> 0, hi |-> slms[i].rows]]
            expected == IF optimize_by_diag_blocks THEN BlocksOfInputs ELSE whole
        IN  /\ Len(ret.value) = Len(expected)
            /\ \A k \in DOMAIN ret.value :
                  LET size == expected[k].hi - expected[k].lo
                      lo == expected[k].lo
                  IN  /\ ret.value[k][2].rows = size /\ ret.value[k][2].cols = size
                      /\ Len(ret.value[k][1]) = Len(variables)
                      /\ \A v \in DOMAIN variables :
                            /\ ret.value[k][1][v].rows = size
                            /\ ret.value[k][1][v].cols = size
                      /\ \A p \in Idx(size) \X Idx(size) :
                            ret.value[k][2].e[p] =
                                slms[expected[k].input].e[<<p[1] + lo, p[2] + lo>>]["1"]

\* C6: what is returned for an LMI is const and coeffs with
\* const + sum(x_i * coeffs[i]) equal to L - R for a PSD or PD relation, to
\* R - L for an NSD or ND relation, and to M for a bare matrix M.
C6_CanonicalSides ==
    PreparedLmis =>
        \A k \in DOMAIN ret.value :
            LET given == AsList(lmi)[Expected[k].input]
                lo == Expected[k].lo
            IN  \A p \in DOMAIN ret.value[k][2].e :
                    /\ ret.value[k][2].e[p] =
                           CanonicalCoef(given, <<p[1] + lo, p[2] + lo>>, "1")
                    /\ \A v \in DOMAIN variables :
                           ret.value[k][1][v].e[p] =
                               CanonicalCoef(given, <<p[1] + lo, p[2] + lo>>, variables[v])

\* test_prepare_lmi_for_sdp: [LMI_PSD(m1, c1), LMI_NSD(m2, c2)] split in
\* blocks gives the three elements the test expects.
C6_Witness ==
    /\ PreparedLmis
    /\ optimize_by_diag_blocks
    /\ lmi = [single |-> FALSE,
              items |-> <<Lmi("LMI_PSD", MatA, RhsA), Lmi("LMI_NSD", MatB, RhsB)>>]
    /\ variables = <<"x", "y", "z">>
    /\ Len(ret.value) = 3
    /\ ret.value[1][2] = Mat(2, 2, (<<0, 0>> :> 0) @@ (<<0, 1>> :> -1) @@
                                   (<<1, 0>> :> -1) @@ (<<1, 1>> :> -1))
    /\ ret.value[1][1][2] = Mat(2, 2, (<<0, 0>> :> 0) @@ (<<0, 1>> :> 1) @@
                                      (<<1, 0>> :> 1) @@ (<<1, 1>> :> 0))
    /\ ret.value[2] = << <<Mat(1, 1, <<0, 0>> :> 0), Mat(1, 1, <<0, 0>> :> -1),
                           Mat(1, 1, <<0, 0>> :> 0)>>, Mat(1, 1, <<0, 0>> :> 30) >>
    /\ ret.value[3] = << <<Mat(1, 1, <<0, 0>> :> -2), Mat(1, 1, <<0, 0>> :> 0),
                           Mat(1, 1, <<0, 0>> :> 0)>>, Mat(1, 1, <<0, 0>> :> 40) >>

\* C8: Gs and hs hold one entry for each prepared LMI; the column of Gs[k]
\* for a variable is the column-major flattening of its negated coefficient
\* matrix, and hs[k] holds the constant matrix entry for entry.
C8_ColumnMajor ==
    (pc = "done" /\ call = "to_cvxopt") =>
        LET prepared == prepare_lmi_for_sdp(lmi, variables, optimize_by_diag_blocks).value
            Gs == ret.value[2]
            hs == ret.value[3]
        IN  /\ Len(Gs) = Len(prepared)
            /\ Len(hs) = Len(prepared)
            /\ \A k \in DOMAIN prepared :
                  LET n == prepared[k][2].rows
                  IN  \A p \in Idx(n) \X Idx(n) :
                         /\ hs[k].e[p] = prepared[k][2].e[p]
                         /\ \A v \in DOMAIN variables :
                               Gs[k].e[<<p[1] + n * p[2], v - 1>>] =
                                   0 - prepared[k][1][v].e[p]

====
